---- MODULE Spec2Model ----
(***************************************************************************)
(* Model of bov-engine/scripts/geocode_addresses.py: extraction of the     *)
(* address entries of a BOV document, the sequential geocoding loop, the   *)
(* merge of the coordinates back into the document and the write-back of   *)
(* the file by main().                                                     *)
(*                                                                         *)
(* JSON values are tagged records, so that values of different Python      *)
(* types are never equal:                                                  *)
(*   dict  [d |-> function from key strings to values]                     *)
(*   list  [l |-> sequence of values]                                      *)
(*   str   [s |-> sequence of text pieces]                                 *)
(*   num   [n |-> integer]                                                 *)
(*   None  [none |-> TRUE]                                                 *)
(* A path step is a dict key [k |-> "name"] or a list index [i |-> n]      *)
(* (0-based, as in the source).                                            *)
(***************************************************************************)
EXTENDS Integers, Sequences, FiniteSets, TLC

VARIABLES file, update, pc, data, addresses, idx, results, success, failed,
          summary, events, responses, origContent, shape

vars == <<file, update, pc, data, addresses, idx, results, success, failed,
          summary, events, responses, origContent, shape>>

(* ---------------------------- bounds ----------------------------------- *)

\* largest number of comparables (sale + active + rent) in a document
MaxTotal == 2

\* largest number of rent comparable groups in a document
MaxGroups == 2

(* ------------------------- JSON values --------------------------------- *)

Dict(m) == [d |-> m]
List(q) == [l |-> q]
Str(t) == [s |-> t]
Num(x) == [n |-> x]
None == [none |-> TRUE]
K(name) == [k |-> name]
I(j) == [i |-> j]

IsDict(v) == DOMAIN v = {"d"}
IsList(v) == DOMAIN v = {"l"}
IsKey(step) == DOMAIN step = {"k"}
IsIdx(step) == DOMAIN step = {"i"}

EmptyMap == [z \in {} |-> None]
EmptyDict == Dict(EmptyMap)

\* dict.get(key, default)
DictGet(obj, key, default) ==
    IF key \in DOMAIN obj.d THEN obj.d[key] ELSE default

(* ---------------------------- text ------------------------------------- *)

Digit(j) == CASE j = 0 -> "0" [] j = 1 -> "1" [] j = 2 -> "2" [] j = 3 -> "3"
              [] j = 4 -> "4" [] j = 5 -> "5" [] j = 6 -> "6" [] j = 7 -> "7"
              [] j = 8 -> "8" [] j = 9 -> "9"

\* str(j) for a non-negative integer: its decimal digits
RECURSIVE Dec(_)
Dec(j) == IF j < 10 THEN <<Digit(j)>> ELSE Dec(j \div 10) \o <<Digit(j % 10)>>

\* the text of a str value ('' when the value is the default '')
Text(v) == v.s

EmptyStr == Str(<<>>)

\* f"{street}, {city}, {state} {zip}"
SubjectAddr(cover) ==
    Text(DictGet(cover, "address_street", EmptyStr)) \o <<", ">>
    \o Text(DictGet(cover, "address_city", EmptyStr)) \o <<", ">>
    \o Text(DictGet(cover, "address_state", EmptyStr)) \o <<" ">>
    \o Text(DictGet(cover, "address_zip", EmptyStr))

\* f"{city}, {state} {zip}"
CityState(cover) ==
    Text(DictGet(cover, "address_city", EmptyStr)) \o <<", ">>
    \o Text(DictGet(cover, "address_state", EmptyStr)) \o <<" ">>
    \o Text(DictGet(cover, "address_zip", EmptyStr))

\* f"{comp.get('address', '')}, {city_state}"
CompAddr(comp, cover) ==
    Text(DictGet(comp, "address", EmptyStr)) \o <<", ">> \o CityState(cover)

(* ------------------------ extract_addresses ---------------------------- *)

SubjectLabel == <<"subject">>
SaleLabel(j) == <<"sale_comp_">> \o Dec(j)
ActiveLabel(j) == <<"active_comp_">> \o Dec(j)

RentLabel_noGroup(gi, ci) == <<"rent_comp_">> \o Dec(ci)

RentLabel(gi, ci) == <<"rent_comp_">> \o Dec(gi) \o <<"_">> \o Dec(ci)

Entry(label, addr, path) == [label |-> label, addr |-> addr, path |-> path]

\* data.get(section, {}).get(key, [])  as a sequence
SectionList(obj, section, key) ==
    DictGet(DictGet(obj, section, EmptyDict), key, List(<<>>)).l

SaleEntries(doc, cover) ==
    LET comps == SectionList(doc, "sale_comps", "comps")
    IN  [j \in 1..Len(comps) |->
            Entry(SaleLabel(j - 1), CompAddr(comps[j], cover),
                  <<K("sale_comps"), K("comps"), I(j - 1), K("coords")>>)]

ActiveEntries(doc, cover) ==
    LET comps == SectionList(doc, "active_comps", "comps")
    IN  [j \in 1..Len(comps) |->
            Entry(ActiveLabel(j - 1), CompAddr(comps[j], cover),
                  <<K("active_comps"), K("comps"), I(j - 1), K("coords")>>)]

GroupEntries(group, gi, cover) ==
    LET comps == DictGet(group, "comps", List(<<>>)).l
    IN  [c \in 1..Len(comps) |->
            Entry(RentLabel(gi, c - 1), CompAddr(comps[c], cover),
                  <<K("rent_comps"), K("groups"), I(gi), K("comps"),
                    I(c - 1), K("coords")>>)]

RECURSIVE RentEntriesFrom(_, _, _)
RentEntriesFrom(groups, g, cover) ==
    IF g > Len(groups) THEN <<>>
    ELSE GroupEntries(groups[g], g - 1, cover)
         \o RentEntriesFrom(groups, g + 1, cover)

extract_addresses(doc) ==
    LET cover == DictGet(doc, "cover", EmptyDict)
    IN  <<Entry(SubjectLabel, SubjectAddr(cover),
                <<K("coordinates"), K("subject")>>)>>
        \o SaleEntries(doc, cover)
        \o ActiveEntries(doc, cover)
        \o RentEntriesFrom(SectionList(doc, "rent_comps", "groups"), 1, cover)

(* --------------------------- geocode_all ------------------------------- *)

\* what geolocator.geocode(addr) can do: return a location (degrees in units
\* of 1e-7), return None (no match), or raise
Location == [lat |-> 407128004, lon |-> -740060015]
NotFound == [notfound |-> TRUE]
Raised == [raised |-> "timeout"]
ResolverResponses == {Location, NotFound, Raised}

IsLocation(resp) == DOMAIN resp = {"lat", "lon"}
IsNotFound(resp) == DOMAIN resp = {"notfound"}
IsRaised(resp) == DOMAIN resp = {"raised"}

\* round(x, 6) of a value given in units of 1e-7, in units of 1e-6
\* (round half to even)
Round6(x) ==
    LET q == x \div 10
        r == x % 10
    IN  IF r < 5 THEN q
        ELSE IF r > 5 THEN q + 1
        ELSE IF q % 2 = 0 THEN q ELSE q + 1

Outcome_notFoundAsError(entry, resp) ==
    IF IsLocation(resp)
    THEN [address |-> entry.addr,
          coords |-> List(<<Num(Round6(resp.lat)), Num(Round6(resp.lon))>>),
          json_path |-> entry.path]
    ELSE [address |-> entry.addr, coords |-> None, json_path |-> entry.path,
          error |-> IF IsRaised(resp) THEN resp.raised ELSE "NOT FOUND"]

\* the record stored for one entry (the three branches of the loop body)
Outcome(entry, resp) ==
    IF IsLocation(resp)
    THEN [address |-> entry.addr,
          coords |-> List(<<Num(Round6(resp.lat)), Num(Round6(resp.lon))>>),
          json_path |-> entry.path]
    ELSE IF IsNotFound(resp)
    THEN [address |-> entry.addr, coords |-> None, json_path |-> entry.path]
    ELSE [address |-> entry.addr, coords |-> None, json_path |-> entry.path,
          error |-> resp.raised]

ResultKey_address(entry) == entry.addr

\* the key under which the outcome of an entry is stored: results[label]
ResultKey(entry) == entry.label

\* results[key] = val on an insertion-ordered dict, kept as a sequence of
\* [key, val] items: an existing key keeps its position and gets the new value
DictPut(items, key, val) ==
    IF \E j \in 1..Len(items) : items[j].key = key
    THEN [j \in 1..Len(items) |->
            IF items[j].key = key THEN [key |-> key, val |-> val]
            ELSE items[j]]
    ELSE Append(items, [key |-> key, val |-> val])

\* what one iteration does besides storing the outcome: the resolver call,
\* and time.sleep(0.5), which is inside the try block after the call
IterationEvents(resp) ==
    IF IsRaised(resp) THEN <<"geocode">> ELSE <<"geocode", "sleep">>

(* --------------------------- update_json ------------------------------- *)

\* obj[step]: a value, or failure (KeyError, IndexError, TypeError)
GetItem(obj, step) ==
    IF IsDict(obj) /\ IsKey(step) /\ step.k \in DOMAIN obj.d
    THEN [ok |-> TRUE, v |-> obj.d[step.k]]
    ELSE IF IsList(obj) /\ IsIdx(step) /\ step.i < Len(obj.l)
    THEN [ok |-> TRUE, v |-> obj.l[step.i + 1]]
    ELSE [ok |-> FALSE, v |-> None]

\* obj[step] = v (the paths of extract_addresses end with a string key)
SetItem(obj, step, v) ==
    IF IsDict(obj) /\ IsKey(step)
    THEN [ok |-> TRUE,
          data |-> Dict([key \in DOMAIN obj.d \cup {step.k} |->
                            IF key = step.k THEN v ELSE obj.d[key]])]
    ELSE IF IsList(obj) /\ IsIdx(step) /\ step.i < Len(obj.l)
    THEN [ok |-> TRUE, data |-> List([obj.l EXCEPT ![step.i + 1] = v])]
    ELSE [ok |-> FALSE, data |-> obj]

\* obj = obj[key] for key in path[:-1]; obj[path[-1]] = v, written as the
\* document that results from the in-place assignment
RECURSIVE SetAt(_, _, _)
SetAt(obj, path, v) ==
    IF Len(path) = 1 THEN SetItem(obj, path[1], v)
    ELSE LET child == GetItem(obj, path[1])
         IN  IF ~child.ok THEN [ok |-> FALSE, data |-> obj]
             ELSE LET r == SetAt(child.v, Tail(path), v)
                  IN  [ok |-> r.ok,
                       data |-> IF r.ok THEN SetItem(obj, path[1], r.data).data
                                ELSE obj]

ApplyResult_noSkip(doc, result) ==
    SetAt(doc, result.json_path, result.coords)

\* obj[path[0]][path[1]]...: a value, or failure
RECURSIVE Lookup(_, _)
Lookup(obj, path) ==
    IF path = <<>> THEN [ok |-> TRUE, v |-> obj]
    ELSE LET child == GetItem(obj, path[1])
         IN  IF child.ok THEN Lookup(child.v, Tail(path)) ELSE child

ApplyResult_extend(doc, result) ==
    IF result.coords = None THEN [ok |-> TRUE, data |-> doc]
    ELSE LET cur == Lookup(doc, result.json_path)
         IN  SetAt(doc, result.json_path,
                   IF cur.ok /\ IsList(cur.v)
                   THEN List(cur.v.l \o result.coords.l)
                   ELSE result.coords)

ApplyResult_alsoAddress(doc, result) ==
    IF result.coords = None THEN [ok |-> TRUE, data |-> doc]
    ELSE LET r == SetAt(doc, result.json_path, result.coords)
             n == Len(result.json_path)
         IN  IF ~r.ok THEN r
             ELSE SetAt(r.data,
                        [result.json_path EXCEPT ![n] = K("address")],
                        Str(result.address))

\* the body of the loop of update_json for one result
ApplyResult(doc, result) ==
    IF result.coords = None THEN [ok |-> TRUE, data |-> doc]
    ELSE SetAt(doc, result.json_path, result.coords)

RECURSIVE UpdateFrom(_, _, _)
UpdateFrom(doc, items, j) ==
    IF j > Len(items) THEN [ok |-> TRUE, data |-> doc]
    ELSE LET r == ApplyResult(doc, items[j].val)
         IN  IF r.ok THEN UpdateFrom(r.data, items, j + 1)
             ELSE [ok |-> FALSE, data |-> r.data]

\* update_json(data, results): the document after the call, and whether
\* the call returned (ok) or raised while navigating a path
update_json(doc, items) == UpdateFrom(doc, items, 1)

(* ----------------------- the persisted file ---------------------------- *)

\* the order in which the sections of a document are written
TopKeys == <<"cover", "coordinates", "sale_comps", "active_comps",
             "rent_comps">>

RECURSIVE Chunks(_, _)
Chunks(doc, j) ==
    IF j > Len(TopKeys) THEN <<>>
    ELSE (IF TopKeys[j] \in DOMAIN doc.d
          THEN <<[key |-> TopKeys[j], val |-> doc.d[TopKeys[j]]]>>
          ELSE <<>>) \o Chunks(doc, j + 1)

\* json.dump(data, f): the text of the file as a sequence of chunks
Ser(doc) == <<[brace |-> "{"]>> \o Chunks(doc, 1) \o <<[brace |-> "}"]>>

WellFormed(content) ==
    /\ Len(content) >= 2
    /\ content[1] = [brace |-> "{"]
    /\ content[Len(content)] = [brace |-> "}"]
    /\ \A j \in 2..(Len(content) - 1) : DOMAIN content[j] = {"key", "val"}

\* json.load(f) of a well-formed file
Parse(content) ==
    LET body == 2..(Len(content) - 1)
    IN  Dict([key \in {content[j].key : j \in body} |->
                content[CHOOSE j \in body : content[j].key = key].val])

(* --------------------------- documents --------------------------------- *)

OldCoords == List(<<Num(1000000), Num(2000000)>>)

Cover == Dict([address_street |-> Str(<<"1 Main St">>),
               address_city |-> Str(<<"Metropolis">>),
               address_state |-> Str(<<"NY">>),
               address_zip |-> Str(<<"10001">>)])

\* a comparable that was geocoded before, and one without address or coords;
\* sale comparables start with the former, the others with the latter
CompOld == Dict([address |-> Str(<<"9 Elm St">>), coords |-> OldCoords])
CompNew == Dict([units |-> Num(4)])

SectionShapes ==
    {[kind |-> "absent"], [kind |-> "nokey"]}
    \cup {[kind |-> "list", n |-> m] : m \in 0..MaxTotal}

GroupShapes ==
    {[kind |-> "nokey"]} \cup {[kind |-> "list", n |-> m] : m \in 0..MaxTotal}

RentShapes ==
    {[kind |-> "absent"], [kind |-> "nokey"]}
    \cup {[kind |-> "groups", groups |-> gs] :
            gs \in UNION {[1..m -> GroupShapes] : m \in 0..MaxGroups}}

CoordShapes == {"absent", "empty", "filled"}

\* the number of comparables a list shape stands for
ListCount(sh) == IF sh.kind = "list" THEN sh.n ELSE 0

RECURSIVE GroupsCount(_, _)
GroupsCount(gs, j) ==
    IF j > Len(gs) THEN 0 ELSE ListCount(gs[j]) + GroupsCount(gs, j + 1)

RentCount(sh) == IF sh.kind = "groups" THEN GroupsCount(sh.groups, 1) ELSE 0

CompCount(sh) == ListCount(sh.sale) + ListCount(sh.active) + RentCount(sh.rent)

Shapes ==
    {sh \in [cover : BOOLEAN, coords : CoordShapes, sale : SectionShapes,
             active : SectionShapes, rent : RentShapes] :
        CompCount(sh) <= MaxTotal}

\* a list of comparables in which geocoded and new ones alternate
CompsOf(sh, old) ==
    IF sh.kind = "list"
    THEN Dict([comps |-> List([j \in 1..sh.n |->
                                 IF (j % 2 = 1) = old THEN CompOld
                                 ELSE CompNew])])
    ELSE EmptyDict

RentOf(sh) ==
    IF sh.kind = "groups"
    THEN Dict([groups |-> List([g \in 1..Len(sh.groups) |->
                                  CompsOf(sh.groups[g], FALSE)])])
    ELSE EmptyDict

CoordsOf(kind) ==
    IF kind = "filled"
    THEN Dict([subject |-> OldCoords, map_center |-> OldCoords])
    ELSE EmptyDict

\* the document of a shape
DocOf(sh) ==
    LET keys == (IF sh.cover THEN {"cover"} ELSE {})
                \cup (IF sh.coords # "absent" THEN {"coordinates"} ELSE {})
                \cup (IF sh.sale.kind # "absent" THEN {"sale_comps"} ELSE {})
                \cup (IF sh.active.kind # "absent" THEN {"active_comps"} ELSE {})
                \cup (IF sh.rent.kind # "absent" THEN {"rent_comps"} ELSE {})
    IN  Dict([key \in keys |->
                CASE key = "cover" -> Cover
                  [] key = "coordinates" -> CoordsOf(sh.coords)
                  [] key = "sale_comps" -> CompsOf(sh.sale, TRUE)
                  [] key = "active_comps" -> CompsOf(sh.active, FALSE)
                  [] key = "rent_comps" -> RentOf(sh.rent)])

NoFile == [exists |-> FALSE, content |-> <<>>]

(* ----------------------------- main ------------------------------------ *)

Init ==
    /\ \/ /\ shape \in Shapes
          /\ file = [exists |-> TRUE, content |-> Ser(DocOf(shape))]
       \/ /\ shape = CHOOSE sh \in Shapes : CompCount(sh) = 0
          /\ file = NoFile
    /\ update \in BOOLEAN
    /\ pc = "start"
    /\ data = None
    /\ addresses = <<>>
    /\ idx = 1
    /\ results = <<>>
    /\ success = 0
    /\ failed = 0
    /\ summary = None
    /\ events = <<>>
    /\ responses = <<>>
    /\ origContent = file.content

\* data_path.exists() fails: print the error and sys.exit(1)
FileMissing ==
    /\ pc = "start"
    /\ ~file.exists
    /\ pc' = "exit1"
    /\ UNCHANGED <<file, update, data, addresses, idx, results, success,
                   failed, summary, events, responses, origContent, shape>>

\* json.load and extract_addresses
Load ==
    /\ pc = "start"
    /\ file.exists
    /\ WellFormed(file.content)
    /\ data' = Parse(file.content)
    /\ addresses' = extract_addresses(data')
    /\ pc' = "geocode"
    /\ UNCHANGED <<file, update, idx, results, success, failed, summary,
                   events, responses, origContent, shape>>

\* one iteration of the loop of geocode_all, the resolver answering resp
Geocode(resp) ==
    /\ pc = "geocode"
    /\ idx <= Len(addresses)
    /\ results' = DictPut(results, ResultKey(addresses[idx]),
                          Outcome(addresses[idx], resp))
    /\ success' = IF IsLocation(resp) THEN success + 1 ELSE success
    /\ failed' = IF IsLocation(resp) THEN failed ELSE failed + 1
    /\ events' = events \o IterationEvents(resp)
    /\ responses' = Append(responses, resp)
    /\ idx' = idx + 1
    /\ UNCHANGED <<file, update, pc, data, addresses, summary, origContent,
                   shape>>

\* the end of geocode_all: the summary line
Summarise ==
    /\ pc = "geocode"
    /\ idx > Len(addresses)
    /\ summary' = [Total |-> Len(addresses), Success |-> success,
                   Failed |-> failed]
    /\ pc' = IF update THEN "update" ELSE "dry"
    /\ UNCHANGED <<file, update, data, addresses, idx, results, success,
                   failed, events, responses, origContent, shape>>

\* without --update: nothing is written
DryRun ==
    /\ pc = "dry"
    /\ pc' = "done"
    /\ UNCHANGED <<file, update, data, addresses, idx, results, success,
                   failed, summary, events, responses, origContent, shape>>

\* data = update_json(data, results); an exception ends the process
Merge ==
    /\ pc = "update"
    /\ LET r == update_json(data, results)
       IN  /\ data' = r.data
           /\ pc' = IF r.ok THEN "open" ELSE "crashed"
    /\ UNCHANGED <<file, update, addresses, idx, results, success, failed,
                   summary, events, responses, origContent, shape>>

\* open(data_path, 'w'): the file is truncated
OpenForWrite ==
    /\ pc = "open"
    /\ file' = [exists |-> TRUE, content |-> <<>>]
    /\ pc' = "dump"
    /\ UNCHANGED <<update, data, addresses, idx, results, success, failed,
                   summary, events, responses, origContent, shape>>

\* json.dump(data, f) and the close of the file
Dump ==
    /\ pc = "dump"
    /\ file' = [exists |-> TRUE, content |-> Ser(data)]
    /\ pc' = "done"
    /\ UNCHANGED <<update, data, addresses, idx, results, success, failed,
                   summary, events, responses, origContent, shape>>

Next ==
    \/ FileMissing
    \/ Load
    \/ \E resp \in ResolverResponses : Geocode(resp)
    \/ Summarise
    \/ DryRun
    \/ Merge
    \/ OpenForWrite
    \/ Dump

Spec == Init /\ [][Next]_vars

(* --------------------------- properties -------------------------------- *)

\* the document as it was loaded
Orig == Parse(origContent)

Loaded == pc \notin {"start", "exit1"}
AfterLoop == pc \in {"update", "dry", "open", "dump", "crashed", "done"}
AfterMerge == update /\ pc \in {"open", "dump", "crashed", "done"}

HasCoords(j) == results[j].val.coords # None

CountResponses(P(_)) == Cardinality({j \in 1..Len(responses) : P(responses[j])})

\* doc without the field at the end of path (doc itself when there is none)
RECURSIVE Strip(_, _)
Strip(doc, path) ==
    IF Len(path) = 1
    THEN IF IsDict(doc) /\ IsKey(path[1]) /\ path[1].k \in DOMAIN doc.d
         THEN Dict([key \in DOMAIN doc.d \ {path[1].k} |-> doc.d[key]])
         ELSE doc
    ELSE LET child == GetItem(doc, path[1])
         IN  IF child.ok
             THEN SetItem(doc, path[1], Strip(child.v, Tail(path))).data
             ELSE doc

\* doc without the fields that the outcomes with coordinates point at
RECURSIVE StripTargets(_, _)
StripTargets(doc, j) ==
    IF j > Len(results) THEN doc
    ELSE StripTargets(IF HasCoords(j)
                      THEN Strip(doc, results[j].val.json_path) ELSE doc,
                      j + 1)

\* C1: geocode_all returns exactly one outcome per entry, in the order of the
\* entries: after k iterations the results hold k outcomes and outcome j is
\* the one of entry j (its label, address and path); after the loop there
\* are as many outcomes as entries.
C1_OneOutcomePerEntryInOrder ==
    Loaded =>
        /\ Len(results) = idx - 1
        /\ AfterLoop => Len(results) = Len(addresses)
        /\ \A j \in 1..Len(results) :
              /\ results[j].key = addresses[j].label
              /\ results[j].val.address = addresses[j].addr
              /\ results[j].val.json_path = addresses[j].path

C1_Witness ==
    /\ pc = "dry"
    /\ Len(results) = 3
    /\ IsRaised(responses[1]) /\ IsNotFound(responses[2])
    /\ IsLocation(responses[3])
    /\ addresses[2].addr = addresses[3].addr

\* C2: an error of the resolver on one entry does not abort the batch: the
\* resolver is called once per processed entry whatever the earlier answers
\* were, after the loop it has been called for every entry, an outcome has
\* coordinates exactly when the resolver returned a location for its entry,
\* and it has an error message only when the resolver raised for its entry.
C2_ErrorDoesNotAbort ==
    Loaded =>
        /\ Cardinality({j \in 1..Len(events) : events[j] = "geocode"}) = idx - 1
        /\ Len(responses) = idx - 1
        /\ AfterLoop => idx - 1 = Len(addresses)
        /\ \A j \in 1..Len(results) :
              /\ HasCoords(j) <=> IsLocation(responses[j])
              /\ "error" \in DOMAIN results[j].val => IsRaised(responses[j])
              /\ IsNotFound(responses[j]) =>
                    ~HasCoords(j) /\ "error" \notin DOMAIN results[j].val

C2_Witness ==
    /\ AfterLoop
    /\ Len(results) = 3
    /\ IsLocation(responses[1]) /\ IsRaised(responses[2])
    /\ IsLocation(responses[3])
    /\ HasCoords(1) /\ ~HasCoords(2) /\ HasCoords(3)
    /\ results[2].val.error = Raised.raised

\* C3: update_json changes only the fields at the end of the paths of the
\* outcomes with coordinates: once these fields are left out, the document
\* after the merge equals the document that was loaded.
C3_MergeTouchesOnlyTargets ==
    AfterMerge => StripTargets(data, 1) = StripTargets(Orig, 1)

C3_Witness ==
    /\ pc = "open"
    /\ data # Orig
    /\ "cover" \in DOMAIN data.d
    /\ \E j \in 1..Len(results) : ~HasCoords(j)
    /\ \E j \in 2..Len(results) : HasCoords(j)

\* C4: for an outcome without coordinates (not found, or error) the merge
\* writes nothing at its path: the field has the value it had, or is still
\* missing; a document whose only entry is not found keeps its coordinates
\* section as it was.
C4_AbsentCoordsLeaveFieldAlone ==
    AfterMerge =>
        /\ \A j \in 1..Len(results) :
              ~HasCoords(j) =>
                  Lookup(data, results[j].val.json_path)
                      = Lookup(Orig, results[j].val.json_path)
        /\ (Len(results) = 1 /\ IsNotFound(responses[1])) =>
              Lookup(data, <<K("coordinates")>>)
                  = Lookup(Orig, <<K("coordinates")>>)

C4_Witness ==
    /\ pc = "open"
    /\ \E j \in 1..Len(results) : HasCoords(j)
    /\ \E j \in 1..Len(results) :
          /\ IsNotFound(responses[j])
          /\ Lookup(data, results[j].val.json_path) = [ok |-> TRUE, v |-> OldCoords]
    /\ \E j \in 1..Len(results) :
          /\ IsRaised(responses[j])
          /\ ~Lookup(data, results[j].val.json_path).ok

\* C5: the merge is idempotent: update_json applied again, with the same
\* outcomes, to the document the first application left returns (or fails)
\* as the first did and leaves that document as it is.
C5_MergeIdempotent ==
    (update /\ pc \in {"open", "crashed"}) =>
        update_json(data, results) = [ok |-> pc = "open", data |-> data]

C5_Witness ==
    /\ pc = "open"
    /\ data # Orig
    /\ \E j \in 1..Len(results) :
          /\ HasCoords(j)
          /\ Lookup(Orig, results[j].val.json_path) = [ok |-> TRUE, v |-> OldCoords]
    /\ \E j \in 1..Len(results) :
          /\ HasCoords(j)
          /\ ~Lookup(Orig, results[j].val.json_path).ok

\* C6: extract_addresses returns 1 + the number of sale comparables + the
\* number of active comparables + the number of rent comparables of all
\* groups entries, an absent section counting for none, and no two entries
\* have the same label.
C6_ExtractCountAndDistinctLabels ==
    Loaded =>
        /\ Len(addresses) = 1 + CompCount(shape)
        /\ \A j, m \in 1..Len(addresses) :
              addresses[j].label = addresses[m].label => j = m

C6_Witness ==
    /\ pc = "geocode"
    /\ shape.sale.kind = "absent"
    /\ shape.active.kind = "nokey"
    /\ shape.rent.kind = "groups"
    /\ Len(shape.rent.groups) = 2
    /\ Len(addresses) = 3

\* C7: the summary reports the successes, the not-found and the errors
\* separately: the count of successes is the number of entries answered with
\* a location and the count reported for failures is the number of entries
\* on which the resolver raised, not-found entries not being counted with
\* them.
C7_SummarySeparatesNotFoundFromErrors ==
    AfterLoop =>
        /\ summary.Success = CountResponses(IsLocation)
        /\ summary.Failed = CountResponses(IsRaised)

\* C8: after every call of the resolver, whatever its outcome, the delay is
\* performed before the next call: no two calls follow each other without a
\* sleep between them.
C8_DelayBetweenCalls ==
    \A j \in 1..(Len(events) - 1) :
        events[j] = "geocode" => events[j + 1] = "sleep"

\* C9: the file is never partially written: in a dry run its content never
\* changes, and with --update its content is at every point either the
\* complete original content or the complete merged content.
C9_FileNeverPartial ==
    file.exists =>
        /\ ~update => file.content = origContent
        /\ \/ file.content = origContent
           \/ AfterMerge /\ pc # "crashed" /\ file.content = Ser(data)

\* C10: every path produced by extract_addresses is a valid traversal of the
\* document it was extracted from: all its steps but the last resolve to a
\* container, so that update_json does not fail while navigating a path.
C10_ExtractedPathsValid ==
    Loaded =>
        /\ \A j \in 1..Len(addresses) :
              LET path == addresses[j].path
                  parent == Lookup(Orig, SubSeq(path, 1, Len(path) - 1))
              IN  parent.ok /\ (IsDict(parent.v) \/ IsList(parent.v))
        /\ pc # "crashed"

====
